---- MODULE Spec2Model ----
(***************************************************************************)
(* Model of the extraction stage of fedresurs-parser                       *)
(* (src/3prepare_raw_contents.py): process_links driven by main, with the  *)
(* per-year bucket files written by save_results, read back by             *)
(* load_existing_results and copied by create_backup.                      *)
(*                                                                         *)
(* A url is a small integer.  A bucket (a raw_contents<year>.json          *)
(* document, or the dict year_results) is a total function over Urls whose *)
(* value is NoRecord for a url that is not a key of the dict.              *)
(***************************************************************************)
EXTENDS Integers, Sequences, FiniteSets, TLC

\* ---------------------------------------------------------------- bounds
\* Length of the longest bucket of the input file.
MaxLinks == 11
\* Number of times the script is started.
MaxRuns == 2
\* Urls 1..MaxErrUrl are the pages whose fetch may fail.
MaxErrUrl == 2
\* Number of records in the bucket files handed to the flattener.
MaxRows == 2
\* The longest lessor text, in lines.
MaxParts == 4
\* The timeout argument of load_all_messages (30 when it is not given).
timeout == 2
\* The passes of the loop of load_all_messages that are followed.
MaxIterations == 5
\* The month entries of 1month_links.json.
MaxMonths == 3

\* ------------------------------------------------------ program constants
\* "Save and backup periodically (every 10 links)".
CadenceN == 10

\* ------------------------------------------------------------------ data
Urls == 1..MaxLinks

NoRecord == [url |-> 0, error |-> "none", content |-> 0]

EmptyBucket == [u \in Urls |-> NoRecord]

\* link is a key of the dict
InBucket(link, results) == results[link] # NoRecord

\* The skip test gone wrong: no link is ever taken as processed.
AlreadyProcessed_Never(link, results) == FALSE

\* "Skip if already processed": `if link in year_results`
AlreadyProcessed(link, results) == InBucket(link, results)

Keys(results) == {u \in Urls : InBucket(u, results)}

IsError(rec) == rec # NoRecord /\ rec.error # "none"

\* The exception a page raises when its fetch fails, by the except clause of
\* parse_contents that catches it: each page that can fail fails in one way.
ErrorKind(url) ==
    CASE url % 3 = 1 -> "timeout"
      [] url % 3 = 2 -> "webdriver_error"
      [] OTHER -> "unexpected_error"

\* The outcomes of driver.get / the page waits inside parse_contents.
FetchOutcomes(url) ==
    IF url <= MaxErrUrl THEN {"none", ErrorKind(url)} ELSE {"none"}

\* Only the first except clause is left: another exception leaves parse_contents.
Caught_TimeoutOnly(outcome) == outcome = "timeout"

\* The except clauses of parse_contents: TimeoutException, WebDriverException
\* and, last, Exception, which takes every other failure of the fetch.
Caught(outcome) ==
    outcome \in {"timeout", "webdriver_error", "unexpected_error"}

\* parse_contents: a parsed page {"url": url, ...sections} or an error record
\* {"error": kind, "url": url}.  The sections of a page are abstracted to the
\* number of the run that fetched them; an error record carries nothing else.
parse_contents(url, outcome, fetchedIn) ==
    IF outcome = "none"
    THEN [url |-> url, error |-> "none", content |-> fetchedIn]
    ELSE [url |-> url, error |-> outcome, content |-> 0]

\* extract_year_from_month: 'YYYY-MM' -> 'YYYY'.  A month string is the pair
\* <<YYYY, MM>>; the text before the first '-' is its first component.
extract_year_from_month(month_str) == month_str[1]

\* One entry of 2month_links.json.  has_links = FALSE is an entry without the
\* key 'links_inside'.
MonthData(y, m, has, ls) ==
    [month |-> <<y, m>>, has_links |-> has, links_inside |-> ls]

\* The input files.  One has a single long bucket spread over two months.  The
\* other has two short buckets, the later year first, a url named twice, a
\* month with an empty list and a month without the key.
InputFiles ==
    { << MonthData(2021, 1, TRUE, [j \in 1..(MaxLinks - 1) |-> j]),
         MonthData(2021, 2, TRUE, <<MaxLinks>>) >>,
      << MonthData(2021, 1, TRUE, <<MaxLinks>>),
         MonthData(2020, 12, TRUE, <<MaxLinks - 1, MaxLinks - 1>>),
         MonthData(2021, 2, TRUE, <<>>),
         MonthData(2021, 3, TRUE, <<MaxLinks - 1>>),
         MonthData(2021, 4, FALSE, <<>>) >> }

\* The grouping loop of process_links over the first n month entries.
RECURSIVE GroupByYear(_, _)
GroupByYear(d, n) ==
    IF n = 0 THEN <<>>
    ELSE LET acc == GroupByYear(d, n - 1)
             month_data == d[n]
             y == extract_year_from_month(month_data.month)
         IN IF ~month_data.has_links \/ month_data.links_inside = <<>>
            THEN acc
            ELSE IF y \in DOMAIN acc
                 THEN [acc EXCEPT ![y] = @ \o month_data.links_inside]
                 ELSE [z \in (DOMAIN acc) \cup {y} |->
                          IF z = y THEN month_data.links_inside ELSE acc[z]]

links_by_year(d) == GroupByYear(d, Len(d))

\* The keys taken from the largest down.
RECURSIVE SortedSeq_Descending(_)
SortedSeq_Descending(S) ==
    IF S = {} THEN <<>>
    ELSE LET hi == CHOOSE x \in S : \A z \in S : z <= x
         IN <<hi>> \o SortedSeq_Descending(S \ {hi})

\* sorted(links_by_year.keys()): four-digit year strings sort as numbers.
RECURSIVE SortedSeq(_)
SortedSeq(S) ==
    IF S = {} THEN <<>>
    ELSE LET lo == CHOOSE x \in S : \A z \in S : x <= z
         IN <<lo>> \o SortedSeq(S \ {lo})

AllYears == {2020, 2021}

\* ----------------------------------------------------------- bucket files
\* A file on disk: absent, a complete JSON document ("ok"), what open(.., 'w')
\* and an unfinished json.dump leave behind ("partial": empty or cut short, text
\* that is not JSON), or bytes that are not UTF-8 text ("undecodable": a file
\* cut inside a multi-byte character, or damaged on disk).
AbsentFile == [state |-> "absent", data |-> EmptyBucket]

PartialFile == [state |-> "partial", data |-> EmptyBucket]

UndecodableFile == [state |-> "undecodable", data |-> EmptyBucket]

WrittenFile(results) == [state |-> "ok", data |-> results]

\* The exceptions of open / json.load that `except (json.JSONDecodeError,
\* IOError)` does not name: reading bytes that are not UTF-8 raises
\* UnicodeDecodeError, a ValueError that is neither of the two.
load_raises(f) == f.state = "undecodable"

\* load_existing_results, when it returns: the document if the file exists and
\* parses, {} if it is absent or json.load raises JSONDecodeError.
load_existing_results(f) ==
    IF f.state = "absent" THEN EmptyBucket
    ELSE IF f.state = "ok" THEN f.data
    ELSE EmptyBucket

\* The records a reader finds in a bucket file: those of a complete document.
FileData(f) == IF f.state = "ok" THEN f.data ELSE EmptyBucket

\* The bucket started empty whatever the flag says.
InitialResults_AlwaysEmpty(force_recreate, f) == EmptyBucket

\* The start of a bucket: {} under --force-recreate, else the loaded file.
InitialResults(force_recreate, f) ==
    IF force_recreate THEN EmptyBucket ELSE load_existing_results(f)

\* The cadence without its first-record case.
ShouldCheckpoint_EveryTenthOnly(processed_count) ==
    processed_count % CadenceN = 0

\* "if processed_count == 1 or processed_count % 10 == 0"
ShouldCheckpoint(processed_count) ==
    processed_count = 1 \/ processed_count % CadenceN = 0

\* A dump that leaves the error records out of the document.
DumpedDocument_WithoutErrors(results) ==
    WrittenFile([u \in Urls |-> IF IsError(results[u]) THEN NoRecord ELSE results[u]])

\* json.dump(results, f): the whole dict is written, not a difference.
DumpedDocument(results) == WrittenFile(results)

\* ------------------------------------------------------------ the flattener
\* src/4make_excel_files.py.  A dict is the sequence of its items in insertion
\* order, each a pair of key and value; a value is tagged with its type.  A
\* text is kept both whole and as its lines.  Field names are written in Latin
\* letters: ZAGOLOVOK, Publikator, Soobshchenie stand for the Cyrillic section
\* names of the records, "No" for the numero sign.
Pair(k, v) == [k |-> k, v |-> v]

RECURSIVE JoinWith(_, _)
JoinWith(ls, sep) ==
    IF ls = <<>> THEN ""
    ELSE IF Len(ls) = 1 THEN ls[1]
    ELSE ls[1] \o sep \o JoinWith(Tail(ls), sep)

Str(s) == [t |-> "str", s |-> s, lines |-> <<s>>, d |-> <<>>]

Text(ls) == [t |-> "str", s |-> JoinWith(ls, "\n"), lines |-> ls, d |-> <<>>]

None == [t |-> "none", s |-> "", lines |-> <<>>, d |-> <<>>]

\* The missing value of a DataFrame cell.
NaN == [t |-> "nan", s |-> "", lines |-> <<>>, d |-> <<>>]

Dict(ps) == [t |-> "dict", s |-> "", lines |-> <<>>, d |-> ps]

\* key in d
Has(d, k) == \E j \in 1..Len(d) : d[j].k = k

\* d[key]
Get(d, k) == d[CHOOSE j \in 1..Len(d) : d[j].k = k].v

\* d.get(key, default)
GetOr(d, k, default) == IF Has(d, k) THEN Get(d, k) ELSE default

\* d[key] = value: a key the dict has keeps its place.
Put(d, k, v) ==
    IF Has(d, k)
    THEN [j \in 1..Len(d) |-> IF d[j].k = k THEN Pair(k, v) ELSE d[j]]
    ELSE Append(d, Pair(k, v))

\* d.update(e), and dict(items) as Update(<<>>, items)
RECURSIVE Update(_, _)
Update(d, e) ==
    IF e = <<>> THEN d
    ELSE Update(Put(d, Head(e).k, Head(e).v), Tail(e))

KeysOf(d) == {d[j].k : j \in 1..Len(d)}

\* bool(value) of a value of a record
Truthy(v) ==
    CASE v.t = "str" -> v.s # ""
      [] v.t = "dict" -> v.d # <<>>
      [] v.t = "int" -> v.s # "0"
      [] OTHER -> FALSE

\* ' \n'.join(...) of the three columns of the subject-items table.
ItemsSeparator == " \n"

\* The entry of one row of the subject-items table: f"{key}. {value}".
ItemEntry(key, item, field) ==
    key \o ". " \o GetOr(item.d, field, Str("net dannyh")).s

\* extract_special_fields
extract_special_fields(record) ==
    LET msg == GetOr(record, "Soobshchenie", Dict(<<>>))
        inMsg(k) == Has(record, "Soobshchenie") /\ Has(msg.d, k)
        related_messages == Get(msg.d, "Svyazannye soobshcheniya").d
        formatted_messages ==
            [j \in 1..Len(related_messages) |->
                related_messages[j].k \o ": \"" \o related_messages[j].v.s \o "\""]
        items == Get(msg.d, "Predmety finansovoj arendy (lizinga)").d
        column(field) ==
            Str(JoinWith([j \in 1..Len(items) |->
                             ItemEntry(items[j].k, items[j].v, field)],
                         ItemsSeparator))
    IN (IF inMsg("Svyazannye soobshcheniya")
        THEN <<Pair("Svyazannye soobshcheniya",
                    Str(JoinWith(formatted_messages, "\n")))>>
        ELSE <<>>)
       \o
       (IF inMsg("Predmety finansovoj arendy (lizinga)")
        THEN <<Pair("Identifikator", column("Identifikator")),
               Pair("Klassifikator", column("Klassifikator")),
               Pair("Opisanie", column("Opisanie"))>>
        ELSE <<>>)

\* str.isdigit() over the texts of the model.
DigitStrings == {"7701", "1027"}

\* The scan of parse_lessor_info over the parts from index j on: a label that
\* is not the last part gives its value the part that follows it.
RECURSIVE LessorScan(_, _, _, _)
LessorScan(parts, j, inn, ogrn) ==
    IF j > Len(parts) THEN <<inn, ogrn>>
    ELSE IF parts[j] = "INN" /\ j + 1 <= Len(parts)
         THEN LessorScan(parts, j + 1, Str(parts[j + 1]), ogrn)
    ELSE IF parts[j] = "OGRN" /\ j + 1 <= Len(parts)
         THEN LessorScan(parts, j + 1, inn, Str(parts[j + 1]))
    ELSE LessorScan(parts, j + 1, inn, ogrn)

\* str.strip() over the lines of the model: the padded line loses its
\* blanks, a line of blanks becomes empty, any other line is as it was.
strip(s) ==
    CASE s = " 7701 " -> "7701"
      [] s = " D1 " -> "D1"
      [] s = "   " -> ""
      [] OTHER -> s

\* parts = [part.strip() for part in lessor_str.split('\n') if part.strip()]
StrippedParts(lines) ==
    SelectSeq([j \in 1..Len(lines) |-> strip(lines[j])], LAMBDA p : p # "")

\* The scan without the digit checks of lines 118-121.
parse_lessor_info_NoDigitCheck(lessor_str) ==
    IF lessor_str.t # "str" THEN <<None, None>>
    ELSE LessorScan(StrippedParts(lessor_str.lines), 1, None, None)

\* parse_lessor_info: (INN, OGRN) of the text of the field, None where the
\* label is missing or its value is not all digits.
parse_lessor_info(lessor_str) ==
    IF lessor_str.t # "str" THEN <<None, None>>
    ELSE LET parts == StrippedParts(lessor_str.lines)
             found == LessorScan(parts, 1, None, None)
             valid(v) == IF v # None /\ v.s \notin DigitStrings THEN None ELSE v
         IN <<valid(found[1]), valid(found[2])>>

\* The dicts flatten_record leaves to extract_special_fields and the header.
SkippedKeys ==
    {"Svyazannye soobshcheniya", "Predmety finansovoj arendy (lizinga)",
     "ZAGOLOVOK"}

\* The items list of flatten_record: a nested key is "key (parent)".
RECURSIVE FlattenItems(_, _)
FlattenItems(record, parent_key) ==
    IF record = <<>> THEN <<>>
    ELSE LET key == Head(record).k
             value == Head(record).v
             new_key == IF parent_key # ""
                        THEN key \o " (" \o parent_key \o ")"
                        ELSE key
             here == IF value.t = "dict"
                     THEN IF key \in SkippedKeys THEN <<>>
                          ELSE Update(<<>>, FlattenItems(value.d, new_key))
                     ELSE <<Pair(new_key, value)>>
         IN here \o FlattenItems(Tail(record), parent_key)

\* flatten_record: dict(items)
flatten_record(record, parent_key) ==
    Update(<<>>, FlattenItems(record, parent_key))

\* The row without the generic fields of the record.
process_single_record_NoFlatten(url, record_data) ==
    LET header_data == GetOr(record_data, "ZAGOLOVOK", Dict(<<>>)).d
        r1 == Update(<<Pair("url", Str(url))>>,
                     extract_special_fields(record_data))
    IN Put(Put(Put(Put(r1,
           "Osnovnoj zagolovok", GetOr(header_data, "Osnovnoj zagolovok", Str(""))),
           "Podzagolovok", GetOr(header_data, "Podzagolovok", Str(""))),
           "INN Lizingodatelya", None),
           "OGRN Lizingodatelya", None)

\* process_single_record: url, the special fields, the two header fields, the
\* two lessor ids, then every flattened field of the record.
process_single_record(url, record_data) ==
    LET r0 == <<Pair("url", Str(url))>>
        r1 == Update(r0, extract_special_fields(record_data))
        header_data == GetOr(record_data, "ZAGOLOVOK", Dict(<<>>)).d
        r2 == Put(Put(r1,
                  "Osnovnoj zagolovok",
                  GetOr(header_data, "Osnovnoj zagolovok", Str(""))),
                  "Podzagolovok",
                  GetOr(header_data, "Podzagolovok", Str("")))
        msg == GetOr(record_data, "Soobshchenie", Dict(<<>>))
        lessor_field == IF Has(record_data, "Soobshchenie")
                           /\ Has(msg.d, "Lizingodateli")
                        THEN Get(msg.d, "Lizingodateli") ELSE None
        ids == IF Truthy(lessor_field) THEN parse_lessor_info(lessor_field)
               ELSE <<None, None>>
        r3 == Put(Put(r2, "INN Lizingodatelya", ids[1]),
                  "OGRN Lizingodatelya", ids[2])
    IN Update(r3, flatten_record(record_data, ""))

\* The rows of one bucket, in the order of its items.
RECURSIVE RowsOfBucket(_)
RowsOfBucket(json_data) ==
    IF json_data = <<>> THEN <<>>
    ELSE <<process_single_record(Head(json_data).k, Head(json_data).v.d)>>
         \o RowsOfBucket(Tail(json_data))

\* process_records: the rows of every bucket, buckets in list order.
RECURSIVE process_records(_)
process_records(json_data_list) ==
    IF json_data_list = <<>> THEN <<>>
    ELSE RowsOfBucket(Head(json_data_list))
         \o process_records(Tail(json_data_list))

\* The columns of pd.DataFrame(list of dicts): every key, in the order of its
\* first appearance.
RECURSIVE FirstAppearance(_, _)
FirstAppearance(cols, records) ==
    IF records = <<>> THEN cols
    ELSE LET rec == Head(records)
             new == SelectSeq([j \in 1..Len(rec) |-> rec[j].k],
                              LAMBDA k : \A m \in 1..Len(cols) : cols[m] # k)
         IN FirstAppearance(cols \o new, Tail(records))

\* One row of a frame over the given columns: a missing key is NaN.
FrameRow(rec, cols) ==
    [c \in {cols[j] : j \in 1..Len(cols)} |-> GetOr(rec, c, NaN)]

\* pd.DataFrame(processed_records)
DataFrame(records) ==
    LET cols == FirstAppearance(<<>>, records)
    IN [columns |-> cols,
        rows |-> [j \in 1..Len(records) |-> FrameRow(records[j], cols)]]

\* df.reindex(columns=cols): the named columns in the named order; a column
\* the frame lacks is filled with NaN, a column not named is dropped.
reindex(df, cols) ==
    [columns |-> cols,
     rows |-> [j \in 1..Len(df.rows) |->
                  [c \in {cols[m] : m \in 1..Len(cols)} |->
                      IF c \in DOMAIN df.rows[j] THEN df.rows[j][c] ELSE NaN]]]

special_columns ==
    << "url", "Osnovnoj zagolovok", "Podzagolovok", "INN Lizingodatelya",
       "OGRN Lizingodatelya", "Identifikator", "Klassifikator", "Opisanie",
       "Svyazannye soobshcheniya" >>

\* The order of Python's str comparison (by code point) over the column names
\* of the model, taken from the Cyrillic names they stand for: Latin letters
\* come before Cyrillic ones.
CodePointOrder ==
    << "error", "name (Publikator)", "url", "Dogovor (Soobshchenie)",
       "INN (Lizingodateli (Soobshchenie))", "INN (Publikator)", "INN Lizingodatelya", "Identifikator",
       "Klassifikator", "Lizingodateli (Soobshchenie)", "OGRN (Publikator)",
       "OGRN Lizingodatelya", "Opisanie", "Osnovnoj zagolovok", "Podzagolovok",
       "Svyazannye soobshcheniya" >>

Rank(name) ==
    CHOOSE j \in 1..Len(CodePointOrder) : CodePointOrder[j] = name

\* The list left in the order it was given.
sorted_AsGiven(seq) == seq

\* sorted(list of str)
RECURSIVE sorted(_)
sorted(seq) ==
    IF seq = <<>> THEN <<>>
    ELSE LET m == CHOOSE j \in 1..Len(seq) :
                      \A k \in 1..Len(seq) : Rank(seq[j]) <= Rank(seq[k])
         IN <<seq[m]>>
            \o sorted([j \in 1..(Len(seq) - 1) |->
                          IF j < m THEN seq[j] ELSE seq[j + 1]])

IsSpecial(col) == \E j \in 1..Len(special_columns) : special_columns[j] = col

\* The other columns forgotten.
other_columns_None(df_columns) == <<>>

\* other_columns = sorted([col for col in df.columns if col not in special_columns])
other_columns(df_columns) ==
    sorted(SelectSeq(df_columns, LAMBDA col : ~IsSpecial(col)))

\* existing_special_cols = [col for col in special_columns if col in df.columns]
existing_special_cols(df_columns) ==
    SelectSeq(special_columns,
              LAMBDA col : \E j \in 1..Len(df_columns) : df_columns[j] = col)

\* create_dataframe
create_dataframe(processed_records) ==
    LET df == DataFrame(processed_records)
    IN reindex(df, existing_special_cols(df.columns) \o other_columns(df.columns))

\* ------------------------------------------------ the records of the model
\* The record parse_contents returns for a page, by the sections it found.
Header(main, sub) ==
    Pair("ZAGOLOVOK", Dict(<<Pair("Osnovnoj zagolovok", Str(main)),
                             Pair("Podzagolovok", Str(sub))>>))

ItemRow(label, fields) == Pair(label, Dict(fields))

Num(s) == [t |-> "int", s |-> s, lines |-> <<s>>, d |-> <<>>]

Shapes == 1..6

\* 1: the fetch timed out.  2: a page with a header only.  3: publisher,
\* message with a lessor block, related messages.  4: a subject-items table
\* whose rows are labelled No1, No2.  5: a subject-items table that kept the
\* rows labelled 1 and 3, the second without a description.  6: a message
\* that holds the related messages itself.
Record(shape, url) ==
    CASE shape = 1 ->
           <<Pair("error", Str("timeout")), Pair("url", Str(url))>>
      [] shape = 2 ->
           <<Pair("url", Str(url)), Header("X", "")>>
      [] shape = 3 ->
           <<Pair("url", Str(url)), Header("X", "Y"),
             Pair("Publikator", Dict(<<Pair("name", Str("P")),
                                       Pair("INN", Num("7701")),
                                       Pair("OGRN", Num("1027"))>>)),
             Pair("Soobshchenie",
                  Dict(<<Pair("Dogovor", Str("D1")),
                         Pair("Lizingodateli",
                              Text(<<"OOO L", "INN", "7701", "OGRN", "n/a">>))>>)),
             Pair("Svyazannye soobshcheniya",
                  Dict(<<Pair("0898 ot 15.07.2021", Str("T1"))>>))>>
      [] shape = 4 ->
           <<Pair("url", Str(url)), Header("X", "Y"),
             Pair("Soobshchenie",
                  Dict(<<Pair("Dogovor", Str("D2")),
                         Pair("Predmety finansovoj arendy (lizinga)",
                              Dict(<<ItemRow("No1",
                                         <<Pair("Identifikator", Str("A1")),
                                           Pair("Klassifikator", Str("K1")),
                                           Pair("Opisanie", Str("O1"))>>),
                                     ItemRow("No2",
                                         <<Pair("Identifikator", Str("A2")),
                                           Pair("Klassifikator", Str("K2")),
                                           Pair("Opisanie", Str("O2"))>>)>>))>>))>>
      [] shape = 5 ->
           <<Pair("url", Str(url)), Header("", ""),
             Pair("Soobshchenie",
                  Dict(<<Pair("Predmety finansovoj arendy (lizinga)",
                              Dict(<<ItemRow("1",
                                         <<Pair("Identifikator", Str("A1")),
                                           Pair("Klassifikator", Str("K1")),
                                           Pair("Opisanie", Str("O1"))>>),
                                     ItemRow("3",
                                         <<Pair("Identifikator", Str("A3")),
                                           Pair("Klassifikator", Str("K3"))>>)>>))>>))>>
      [] OTHER ->
           <<Pair("url", Str(url)), Header("X", ""),
             Pair("Soobshchenie",
                  Dict(<<Pair("Dogovor", Str("D3")),
                         Pair("Svyazannye soobshcheniya",
                              Dict(<<Pair("0898 ot 15.07.2021", Str("T1")),
                                     Pair("0899 ot 16.07.2021", Str("T2"))>>))>>))>>

UrlOf(j) == "http://f/" \o ToString(j)

\* The bucket files read_json_files returns for a choice of records: the
\* records from..to of the population, each under its url.
Bucket(shapeOf, from, to) ==
    [j \in 1..(to - from + 1) |->
        Pair(UrlOf(from + j - 1),
             Dict(Record(shapeOf[from + j - 1], UrlOf(from + j - 1))))]

\* Two bucket files holding up to MaxRows records between them.
Populations ==
    UNION { { <<Bucket(shapeOf, 1, cutAt), Bucket(shapeOf, cutAt + 1, n)>> :
                 cutAt \in 0..n, shapeOf \in [1..n -> Shapes] } :
            n \in 0..MaxRows }

\* ------------------------------------------------------- the page parser
\* parse_contents and the functions under it (src/3prepare_raw_contents.py).
\* A DOM lookup finds its element or raises; both exceptions of the model are
\* WebDriverExceptions.
Lookups ==
    {"found", "NoSuchElementException", "StaleElementReferenceException"}

\* A value element: its .text, the .text of its span children, its innerText
\* attribute; every access to a stale element raises.
Element(text, spans, innerText, stale) ==
    [text |-> text, spans |-> spans, innerText |-> innerText, stale |-> stale]

Elements ==
    { Element("D1", <<>>, "D1", FALSE),
      Element(" D1 ", <<"D1">>, " D1 ", FALSE),
      Element("", <<"D", "", "1">>, "", FALSE),
      Element("", <<"", "">>, "D1", FALSE),
      Element("", <<>>, " D1 ", FALSE),
      Element("", <<>>, "", FALSE),
      Element("D1", <<>>, "D1", TRUE) }

\* The span texts that are not empty once stripped, stripped.
SpanTexts(spans) ==
    SelectSeq([j \in 1..Len(spans) |-> strip(spans[j])], LAMBDA t : t # "")

\* extract_text_content: the stripped text; without text, the span texts
\* joined by a space when the element has span children; without span
\* children, the stripped innerText.  Any exception gives "".
extract_text_content(element) ==
    IF element.stale THEN ""
    ELSE IF strip(element.text) # "" THEN strip(element.text)
    ELSE IF element.spans # <<>> THEN JoinWith(SpanTexts(element.spans), " ")
    ELSE strip(element.innerText)

\* int(value) over the digit texts of the model: leading zeros are lost.
IntOf(value) ==
    CASE value = "0077" -> Num("77")
      [] OTHER -> Num(value)

\* What int() accepts among the texts of the model.
IntTexts == DigitStrings \cup {"0077"}

\* _safe_int_convert: None for a falsy value and for a text int() rejects.
\* The variant keeps the rejected text.
safe_int_convert_Verbatim(value) ==
    IF value = "" THEN None
    ELSE IF value \in IntTexts THEN IntOf(value)
    ELSE Str(value)

safe_int_convert(value) ==
    IF value = "" THEN None
    ELSE IF value \in IntTexts THEN IntOf(value)
    ELSE None

\* What a function gives: a value, or the exception that leaves it.
Returns(value) == [raised |-> "none", value |-> value]

Raises(exception) == [raised |-> exception, value |-> None]

\* The publisher block of a page: the lookup of the section, and the texts of
\* the name and of the two id spans.
PublisherDom(lookup, name, inn, ogrn) ==
    [lookup |-> lookup, name |-> name, inn |-> inn, ogrn |-> ogrn]

PublisherDoms ==
    { PublisherDom("found", "P", ids[1], ids[2]) :
         ids \in { <<"7701", "1027">>, <<"0077", "1027">>, <<"abc123", "1027">>,
                   <<"7701", "n/a">>, <<"", "1027">> } }
    \cup { PublisherDom(l, "", "", "") : l \in Lookups \ {"found"} }

\* The message block: the lookup of its sections, and the value element of
\* its info item Dogovor.
MessageDom(lookup, value) == [lookup |-> lookup, value |-> value]

MessageDoms ==
    { MessageDom("found", e) : e \in Elements }
    \cup { MessageDom(l, Element("", <<>>, "", FALSE)) : l \in Lookups \ {"found"} }

\* The related-messages block: the wait for its header (TimeoutException when
\* the page has none), and the number/date and title of its info items.
RelatedDom(lookup, items) == [lookup |-> lookup, items |-> items]

Notice(number_date, title) == [number_date |-> number_date, title |-> title]

RelatedDoms ==
    { RelatedDom("found", items) :
         items \in { <<>>,
                     <<Notice("0898 ot 15.07.2021", "T1")>>,
                     <<Notice("0898 ot 15.07.2021", "T1"),
                       Notice("0899 ot 16.07.2021", "T2"),
                       Notice("0900 ot 17.07.2021", "")>> } }
    \cup { RelatedDom(l, <<>>) :
              l \in {"TimeoutException", "StaleElementReferenceException"} }

\* The pages of the model.
Pages ==
    [ main_header : Lookups,
      subheader : {"found", "NoSuchElementException"},
      publisher : PublisherDoms,
      message : MessageDoms,
      related : RelatedDoms ]

\* One lookup of parse_header: the text when found, "" kept on
\* NoSuchElementException; any other exception is not caught.
HeaderLookup(lookup, text) ==
    CASE lookup = "found" -> Returns(Str(text))
      [] lookup = "NoSuchElementException" -> Returns(Str(""))
      [] OTHER -> Raises(lookup)

\* parse_header
parse_header(dom) ==
    LET main_header == HeaderLookup(dom.main_header, "X")
        subheader == HeaderLookup(dom.subheader, "Y")
    IN IF main_header.raised # "none" THEN main_header
       ELSE IF subheader.raised # "none" THEN subheader
       ELSE Returns(Dict(<<Pair("Osnovnoj zagolovok", main_header.value),
                           Pair("Podzagolovok", subheader.value)>>))

\* parse_publisher_section: None when the section is not found, when any
\* lookup raises, and when the name or an id text is missing.
parse_publisher_section(dom) ==
    LET p == dom.publisher
    IN IF p.lookup # "found" THEN None
       ELSE IF p.name = "" \/ p.inn = "" \/ p.ogrn = "" THEN None
       ELSE Dict(<<Pair("name", Str(p.name)),
                   Pair("INN", safe_int_convert(p.inn)),
                   Pair("OGRN", safe_int_convert(p.ogrn))>>)

\* parse_message_section: the info items with a key and a value; {} when
\* the lookup raises.
parse_message_section(dom) ==
    LET m == dom.message
        value == extract_text_content(m.value)
    IN IF m.lookup # "found" THEN Dict(<<>>)
       ELSE IF value # "" THEN Dict(<<Pair("Dogovor", Str(value))>>)
       ELSE Dict(<<>>)

\* The loop of parse_related_messages over the info items: an item with a
\* number/date and a title is stored, title under number/date.
RECURSIVE RelatedItems(_, _)
RelatedItems(items, related_messages) ==
    IF items = <<>> THEN related_messages
    ELSE LET item == Head(items)
         IN RelatedItems(Tail(items),
                         IF item.number_date # "" /\ item.title # ""
                         THEN Put(related_messages, item.number_date,
                                  Str(item.title))
                         ELSE related_messages)

\* parse_related_messages: {} when the header is not found or a lookup raises.
parse_related_messages(dom) ==
    IF dom.related.lookup # "found" THEN Dict(<<>>)
    ELSE Dict(RelatedItems(dom.related.items, <<>>))

VARIABLES
    data,             \* the content of 2month_links.json
    run,              \* how many times the script has been started
    force,            \* args.force_recreate of the current (or last) run
    pc,               \* position of the run; "idle" between runs
    outcome,          \* how the last run ended
    driver,           \* the browser: "none" or "up"
    years,            \* the years still to visit, ascending
    year,             \* the bucket being processed
    links,            \* links_by_year[year]
    i,                \* index of the link under the loop
    processed_count,  \* new links of this bucket in this run
    year_results,     \* the in-memory bucket
    file,             \* year -> the bucket file on disk
    backup,           \* year -> the copy in this run's BACKUP_DIR
    \* history of the run, for stating the properties
    loaded,           \* year_results as it was when the bucket was started
    trace,            \* what the run did in this bucket, in order
    startFile,        \* the bucket files when the run started
    prev,             \* whether the run before this one completed, and its flag
    pinned,           \* records found in the files at the start of non-force runs
    failed,           \* year -> urls for which parse_contents returned an error
    cut,              \* where the first run was interrupted
    \* the export stage (4make_excel_files.py)
    json_data_list,   \* what read_json_files returned
    processed_records,\* the rows of process_records
    df,               \* the frame of create_dataframe
    fstage,           \* position of the export: "off" while it is not run
    \* one call of parse_contents (3prepare_raw_contents.py)
    page,             \* the DOM the sub-extractors read
    parsed_data,      \* the dict under construction, then the record returned
    ppc,              \* position of the call: "off" while it is not made
    click_count,      \* load_all_messages: clicks made
    iterations,       \* load_all_messages: passes of its loop so far
    \* the discovery stage (2prepare_message_links.py)
    links_file,       \* 2month_links.json, the output file of the stage
    entries,          \* data, the list of month entries in memory
    entry_i,          \* index of the entry under the loop
    dpc,              \* position of process_links_file: "off" while not run
    dtrace            \* the months fetched, run by run

vars == <<data, run, force, pc, outcome, driver, years, year, links, i,
          processed_count, year_results, file, backup, loaded, trace,
          startFile, prev, pinned, failed, cut,
          json_data_list, processed_records, df, fstage,
          page, parsed_data, ppc, click_count, iterations,
          links_file, entries, entry_i, dpc, dtrace>>

\* The variables of one call of parse_contents.
pageVars == <<page, parsed_data, ppc, click_count, iterations>>

\* The variables of the discovery stage.
discVars == <<links_file, entries, entry_i, dpc, dtrace>>

\* What the extraction loop and the export leave alone.
asideVars == <<pageVars, discVars>>

\* The variables of the export stage, which the extraction stage leaves alone.
flatVars == <<json_data_list, processed_records, df, fstage>>

\* The variables of the extraction stage.
extractVars == <<data, run, force, pc, outcome, driver, years, year, links, i,
                 processed_count, year_results, file, backup, loaded, trace,
                 startFile, prev, pinned, failed, cut>>

progVars == <<years, year, links, i, processed_count, year_results>>

NoCut == [year |-> 0, n |-> 0]

\* The export has not been started.
ExportOff ==
    /\ json_data_list = <<>>
    /\ processed_records = <<>>
    /\ df = [columns |-> <<>>, rows |-> <<>>]
    /\ fstage = "off"

\* The page of a call that has not been made.
NoPage == <<>>

\* No call of parse_contents is followed.
PageOff ==
    /\ page = NoPage
    /\ parsed_data = <<>>
    /\ ppc = "off"
    /\ click_count = 0
    /\ iterations = 0

\* The discovery stage is not followed.
DiscoveryOff ==
    /\ links_file = <<>>
    /\ entries = <<>>
    /\ entry_i = 0
    /\ dpc = "off"
    /\ dtrace = <<>>

\* The state before the script is started, with the bucket files as given.
InitWith(files) ==
    /\ ExportOff
    /\ PageOff
    /\ DiscoveryOff
    /\ data \in InputFiles
    /\ run = 0
    /\ force = FALSE
    /\ pc = "idle"
    /\ outcome = "none"
    /\ driver = "none"
    /\ years = <<>>
    /\ year = 0
    /\ links = <<>>
    /\ i = 0
    /\ processed_count = 0
    /\ year_results = EmptyBucket
    /\ file = files
    /\ backup = [y \in AllYears |-> AbsentFile]
    /\ loaded = EmptyBucket
    /\ trace = <<>>
    /\ startFile = files
    /\ prev = [completed |-> FALSE, force |-> FALSE]
    /\ pinned = [y \in AllYears |-> EmptyBucket]
    /\ failed = [y \in AllYears |-> {}]
    /\ cut = NoCut

\* The script has never run: 3raw_contents holds no bucket file.
Init == InitWith([y \in AllYears |-> AbsentFile])

\* The bucket files an earlier run has left when it was stopped after its first
\* checkpoint: the first link of the long bucket, fetched without error.
LeftByEarlierRun ==
    [y \in AllYears |->
        IF y = 2021
        THEN WrittenFile([EmptyBucket EXCEPT ![1] = parse_contents(1, "none", 0)])
        ELSE AbsentFile]

InitResumed == InitWith(LeftByEarlierRun)

\* The script is started over a bucket file that is not a JSON document: text
\* cut short, or bytes that are not UTF-8.
InitCorrupt ==
    \E f \in {PartialFile, UndecodableFile} :
        InitWith([y \in AllYears |-> IF y = 2021 THEN f ELSE AbsentFile])

\* -------------------------------------------------------------- the trace
Event(ev, u, rec, k) == [ev |-> ev, url |-> u, rec |-> rec, k |-> k]

\* The urls handed to parse_contents in this bucket, in order.
RECURSIVE FetchedOf(_)
FetchedOf(t) ==
    IF t = <<>> THEN <<>>
    ELSE IF Head(t).ev = "proc" THEN <<Head(t)>> \o FetchedOf(Tail(t))
    ELSE FetchedOf(Tail(t))

Range(s) == {s[j] : j \in 1..Len(s)}

Running == pc # "idle"

\* ------------------------------------------------------------------ main
\* main() calls process_links: the backup directory of the run is created, the
\* input file is loaded and grouped by year.
StartRun(force_recreate) ==
    /\ pc = "idle"
    /\ run < MaxRuns
    /\ run' = run + 1
    /\ force' = force_recreate
    /\ pc' = "setup"
    /\ outcome' = "running"
    /\ backup' = [y \in AllYears |-> AbsentFile]
    /\ years' = SortedSeq(DOMAIN links_by_year(data))
    /\ year' = 0
    /\ links' = <<>>
    /\ i' = 0
    /\ processed_count' = 0
    /\ year_results' = EmptyBucket
    /\ loaded' = EmptyBucket
    /\ trace' = <<>>
    /\ startFile' = file
    /\ prev' = [completed |-> outcome = "ok", force |-> outcome = "ok" /\ force]
    /\ pinned' = IF force_recreate
                 THEN [y \in AllYears |-> EmptyBucket]
                 ELSE [y \in AllYears |-> [u \in Urls |->
                          IF pinned[y][u] # NoRecord THEN pinned[y][u]
                          ELSE FileData(file[y])[u]]]
    /\ UNCHANGED <<asideVars, flatVars, data, driver, file, failed, cut>>

\* The process is gone and its memory with it.
ProcessExit ==
    /\ years' = <<>>
    /\ year' = 0
    /\ links' = <<>>
    /\ i' = 0
    /\ processed_count' = 0
    /\ year_results' = EmptyBucket
    /\ loaded' = EmptyBucket
    /\ trace' = <<>>

\* How a run leaves process_links by an exception: the finally clause quits
\* the driver, main catches the exception and returns 1.
Abort(how) ==
    /\ pc' = "idle"
    /\ outcome' = how
    /\ driver' = "none"
    /\ ProcessExit

\* driver = setup_driver(...)
SetupDriver ==
    /\ pc = "setup"
    /\ driver' = "up"
    /\ pc' = "next_year"
    /\ UNCHANGED <<asideVars, flatVars, data, run, force, outcome, progVars, file, backup, loaded,
                   trace, startFile, prev, pinned, failed, cut>>

\* webdriver.Chrome raises: nothing was processed.
SetupDriverFails ==
    /\ pc = "setup"
    /\ Abort("error")
    /\ UNCHANGED <<asideVars, flatVars, data, run, force, file, backup, startFile, prev, pinned,
                   failed, cut>>

\* "for year in sorted(...)": the next bucket is loaded (or started empty).
\* An exception that leaves load_existing_results leaves process_links too.
LoadYear ==
    /\ pc = "next_year"
    /\ years # <<>>
    /\ IF ~force /\ load_raises(file[Head(years)])
       THEN Abort("error")
       ELSE /\ year' = Head(years)
            /\ years' = Tail(years)
            /\ year_results' = InitialResults(force, file[Head(years)])
            /\ loaded' = year_results'
            /\ links' = links_by_year(data)[Head(years)]
            /\ processed_count' = 0
            /\ i' = 1
            /\ trace' = <<>>
            /\ pc' = "link_loop"
            /\ UNCHANGED <<outcome, driver>>
    /\ UNCHANGED <<asideVars, flatVars, data, run, force, file, backup, startFile, prev, pinned,
                   failed, cut>>

\* The year loop is exhausted: finally quits the driver, main returns 0.
Finish ==
    /\ pc = "next_year"
    /\ years = <<>>
    /\ pc' = "idle"
    /\ outcome' = "ok"
    /\ driver' = "none"
    /\ ProcessExit
    /\ UNCHANGED <<asideVars, flatVars, data, run, force, file, backup, startFile, prev, pinned,
                   failed, cut>>

\* "if link in year_results: ... continue"
SkipLink ==
    /\ pc = "link_loop"
    /\ i <= Len(links)
    /\ AlreadyProcessed(links[i], year_results)
    /\ i' = i + 1
    /\ trace' = Append(trace, Event("skip", links[i], NoRecord, processed_count))
    /\ UNCHANGED <<asideVars, flatVars, data, run, force, pc, outcome, driver, years, year, links,
                   processed_count, year_results, file, backup, loaded,
                   startFile, prev, pinned, failed, cut>>

\* The link is new: "Processing: ..." and parse_contents is entered.
BeginFetch ==
    /\ pc = "link_loop"
    /\ i <= Len(links)
    /\ ~AlreadyProcessed(links[i], year_results)
    /\ pc' = "parse"
    /\ UNCHANGED <<asideVars, flatVars, data, run, force, outcome, driver, progVars, file, backup,
                   loaded, trace, startFile, prev, pinned, failed, cut>>

\* content = parse_contents(driver, link); year_results[link] = content;
\* processed_count += 1.  An exception that no except clause of parse_contents
\* takes would leave process_links.
FetchAndMerge ==
    /\ pc = "parse"
    /\ \E o \in FetchOutcomes(links[i]) :
          IF o = "none" \/ Caught(o)
          THEN LET content == parse_contents(links[i], o, run)
               IN /\ year_results' = [year_results EXCEPT ![links[i]] = content]
                  /\ trace' = Append(trace, Event("proc", links[i], content,
                                                   processed_count + 1))
                  /\ failed' = IF o = "none" THEN failed
                               ELSE [failed EXCEPT ![year] = @ \cup {links[i]}]
                  /\ processed_count' = processed_count + 1
                  /\ pc' = "cadence"
                  /\ UNCHANGED <<outcome, driver, years, year, links, i, loaded>>
          ELSE /\ Abort("error")
               /\ UNCHANGED failed
    /\ UNCHANGED <<asideVars, flatVars, data, run, force, file, backup, startFile, prev, pinned, cut>>

\* The cadence test after a merge; without a checkpoint the loop sleeps and
\* goes to the next link.
Cadence ==
    /\ pc = "cadence"
    /\ IF ShouldCheckpoint(processed_count)
       THEN pc' = "save" /\ i' = i
       ELSE pc' = "link_loop" /\ i' = i + 1
    /\ UNCHANGED <<asideVars, flatVars, data, run, force, outcome, driver, years, year, links,
                   processed_count, year_results, file, backup, loaded, trace,
                   startFile, prev, pinned, failed, cut>>

\* The link loop is exhausted: "Final save for this year".
EndOfLinks ==
    /\ pc = "link_loop"
    /\ i > Len(links)
    /\ pc' = "final_save"
    /\ UNCHANGED <<asideVars, flatVars, data, run, force, outcome, driver, progVars, file, backup,
                   loaded, trace, startFile, prev, pinned, failed, cut>>


\* ---------------------------------------------------------- save_results
\* open(output_file, 'w'): the file is truncated before anything is written.
SaveOpen ==
    /\ pc \in {"save", "final_save"}
    /\ file' = [file EXCEPT ![year] = PartialFile]
    /\ pc' = IF pc = "save" THEN "dump" ELSE "final_dump"
    /\ UNCHANGED <<asideVars, flatVars, data, run, force, outcome, driver, progVars, backup, loaded,
                   trace, startFile, prev, pinned, failed, cut>>

\* json.dump(results, f, ...) runs to its end and the file is closed.
SaveDump ==
    /\ pc \in {"dump", "final_dump"}
    /\ file' = [file EXCEPT ![year] = DumpedDocument(year_results)]
    /\ trace' = Append(trace, Event(IF pc = "dump" THEN "save" ELSE "final_save",
                                    0, NoRecord, processed_count))
    /\ pc' = IF pc = "dump" THEN "backup" ELSE "final_backup"
    /\ UNCHANGED <<asideVars, flatVars, data, run, force, outcome, driver, progVars, backup, loaded,
                   startFile, prev, pinned, failed, cut>>

\* save_results with nothing happening between its open and the end of its
\* json.dump: the call taken as one step.
SaveWhole ==
    /\ pc \in {"save", "final_save"}
    /\ file' = [file EXCEPT ![year] = DumpedDocument(year_results)]
    /\ trace' = Append(trace, Event(IF pc = "save" THEN "save" ELSE "final_save",
                                    0, NoRecord, processed_count))
    /\ pc' = IF pc = "save" THEN "backup" ELSE "final_backup"
    /\ UNCHANGED <<asideVars, flatVars, data, run, force, outcome, driver, progVars, backup, loaded,
                   startFile, prev, pinned, failed, cut>>

\* os.makedirs or open raises (OSError): nothing in process_links catches it,
\* the file is as it was.
SaveFails ==
    /\ pc \in {"save", "final_save"}
    /\ Abort("error")
    /\ UNCHANGED <<asideVars, flatVars, data, run, force, file, backup, startFile, prev, pinned,
                   failed, cut>>

\* --------------------------------------------------------- create_backup
\* The copy without its try/except: a copy that fails leaves process_links.
create_backup_Raising(copied) ==
    /\ pc \in {"backup", "final_backup"}
    /\ IF file[year].state # "absent" /\ ~copied
       THEN /\ Abort("error")
            /\ UNCHANGED backup
       ELSE /\ backup' = IF file[year].state # "absent"
                         THEN [backup EXCEPT ![year] = file[year]]
                         ELSE backup
            /\ trace' = Append(trace, Event(IF pc = "backup" THEN "backup"
                                            ELSE "final_backup",
                                            0, NoRecord, processed_count))
            /\ IF pc = "backup"
               THEN pc' = "link_loop" /\ i' = i + 1
               ELSE pc' = "next_year" /\ i' = i
            /\ UNCHANGED <<outcome, driver, years, year, links,
                           processed_count, year_results, loaded>>
    /\ UNCHANGED <<asideVars, flatVars, data, run, force, file, startFile, prev, pinned, failed, cut>>

\* The copy into BACKUP_DIR; an exception inside it is printed and dropped.
\* After a cadence backup the loop sleeps and takes the next link; after the
\* final backup the year loop goes on.
create_backup(copied) ==
    /\ pc \in {"backup", "final_backup"}
    /\ backup' = IF file[year].state # "absent" /\ copied
                 THEN [backup EXCEPT ![year] = file[year]]
                 ELSE backup
    /\ trace' = Append(trace, Event(IF pc = "backup" THEN "backup" ELSE "final_backup",
                                    0, NoRecord, processed_count))
    /\ IF pc = "backup"
       THEN pc' = "link_loop" /\ i' = i + 1
       ELSE pc' = "next_year" /\ i' = i
    /\ UNCHANGED <<asideVars, flatVars, data, run, force, outcome, driver, years, year, links,
                   processed_count, year_results, file, loaded, startFile,
                   prev, pinned, failed, cut>>

\* ------------------------------------------------------------- interrupt
AllDistinct(s) == Cardinality(Range(s)) = Len(s)

\* The first run, without --force-recreate and over a bucket of distinct urls
\* that had no file, is stopped right after n urls were fetched and merged.
CutHere ==
    IF /\ run = 1 /\ ~force /\ year # 0
       /\ startFile[year].state = "absent"
       /\ AllDistinct(links)
       /\ \/ pc = "cadence"
          \/ processed_count = 0 /\ pc \in {"link_loop", "parse"}
    THEN [year |-> year, n |-> processed_count]
    ELSE cut

\* KeyboardInterrupt (or the process being killed) at any point of the run:
\* the finally clause of process_links only quits the driver, main prints
\* "Processing interrupted by user" and returns 1.
Interrupt ==
    /\ Running
    /\ Abort("interrupted")
    /\ cut' = CutHere
    /\ UNCHANGED <<asideVars, flatVars, data, run, force, file, backup, startFile, prev, pinned,
                   failed>>

\* --------------------------------------------------------- specifications
Next ==
    \/ \E f \in BOOLEAN : StartRun(f)
    \/ SetupDriver
    \/ SetupDriverFails
    \/ LoadYear
    \/ Finish
    \/ SkipLink
    \/ BeginFetch
    \/ FetchAndMerge
    \/ Cadence
    \/ EndOfLinks
    \/ SaveOpen
    \/ SaveDump
    \/ SaveFails
    \/ \E copied \in BOOLEAN : create_backup(copied)
    \/ Interrupt

Spec == Init /\ [][Next]_vars

\* The same program with every save_results call taken as one step.
NextAtomic ==
    \/ \E f \in BOOLEAN : StartRun(f)
    \/ SetupDriver
    \/ SetupDriverFails
    \/ LoadYear
    \/ Finish
    \/ SkipLink
    \/ BeginFetch
    \/ FetchAndMerge
    \/ Cadence
    \/ EndOfLinks
    \/ SaveWhole
    \/ SaveFails
    \/ \E copied \in BOOLEAN : create_backup(copied)
    \/ Interrupt

SpecAtomic == Init /\ [][NextAtomic]_vars

\* The program started over the files an earlier run has left.
SpecResumed == InitResumed /\ [][Next]_vars

\* The program started over a corrupt bucket file.
SpecCorrupt == InitCorrupt /\ [][Next]_vars

\* ------------------------------------------------------------ the export
\* main of 4make_excel_files.py has read the bucket files.
InitFlatten ==
    /\ data \in InputFiles
    /\ run = 0
    /\ force = FALSE
    /\ pc = "idle"
    /\ outcome = "none"
    /\ driver = "none"
    /\ years = <<>>
    /\ year = 0
    /\ links = <<>>
    /\ i = 0
    /\ processed_count = 0
    /\ year_results = EmptyBucket
    /\ file = [y \in AllYears |-> AbsentFile]
    /\ backup = [y \in AllYears |-> AbsentFile]
    /\ loaded = EmptyBucket
    /\ trace = <<>>
    /\ startFile = file
    /\ prev = [completed |-> FALSE, force |-> FALSE]
    /\ pinned = [y \in AllYears |-> EmptyBucket]
    /\ failed = [y \in AllYears |-> {}]
    /\ cut = NoCut
    /\ PageOff
    /\ DiscoveryOff
    /\ json_data_list \in Populations
    /\ processed_records = <<>>
    /\ df = [columns |-> <<>>, rows |-> <<>>]
    /\ fstage = "read"

\* convert_to_excel, step 1: processed_records = process_records(json_data_list)
ProcessRecords ==
    /\ fstage = "read"
    /\ processed_records' = process_records(json_data_list)
    /\ fstage' = "processed"
    /\ UNCHANGED <<asideVars, extractVars, json_data_list, df>>

\* "if not processed_records: return"
NoRecords ==
    /\ fstage = "processed"
    /\ processed_records = <<>>
    /\ fstage' = "done"
    /\ UNCHANGED <<asideVars, extractVars, json_data_list, processed_records, df>>

\* convert_to_excel, step 2: df = create_dataframe(processed_records)
CreateDataframe ==
    /\ fstage = "processed"
    /\ processed_records # <<>>
    /\ df' = create_dataframe(processed_records)
    /\ fstage' = "framed"
    /\ UNCHANGED <<asideVars, extractVars, json_data_list, processed_records>>

NextFlatten ==
    \/ ProcessRecords
    \/ NoRecords
    \/ CreateDataframe

SpecFlatten == InitFlatten /\ [][NextFlatten]_vars

\* The extraction stage has not run.
ExtractionIdle ==
    /\ data = <<>>
    /\ run = 0
    /\ force = FALSE
    /\ pc = "idle"
    /\ outcome = "none"
    /\ driver = "none"
    /\ years = <<>>
    /\ year = 0
    /\ links = <<>>
    /\ i = 0
    /\ processed_count = 0
    /\ year_results = EmptyBucket
    /\ file = [y \in AllYears |-> AbsentFile]
    /\ backup = [y \in AllYears |-> AbsentFile]
    /\ loaded = EmptyBucket
    /\ trace = <<>>
    /\ startFile = file
    /\ prev = [completed |-> FALSE, force |-> FALSE]
    /\ pinned = [y \in AllYears |-> EmptyBucket]
    /\ failed = [y \in AllYears |-> {}]
    /\ cut = NoCut

\* ------------------------------------------------------- parse_contents
\* One call of parse_contents, from the point where driver.get and the wait
\* for the body have returned, followed by the export of the record it gave.
InitPage ==
    /\ ExtractionIdle
    /\ ExportOff
    /\ DiscoveryOff
    /\ page = NoPage
    /\ parsed_data = <<>>
    /\ ppc = "load_more"
    /\ click_count = 0
    /\ iterations = 0

\* How one pass of the loop of load_all_messages ends: the click is made, or
\* the wait or the click raises.
ButtonOutcomes ==
    {"clicked", "NoSuchElementException", "TimeoutException",
     "StaleElementReferenceException", "Exception"}

\* One pass of "while click_count < timeout": a click counts, a missing
\* button and an unexpected error break, a stale element goes round again
\* ("continue") with click_count as it was.
LoadMorePass(o) ==
    /\ ppc = "load_more"
    /\ click_count < timeout
    /\ iterations < MaxIterations
    /\ iterations' = iterations + 1
    /\ click_count' = IF o = "clicked" THEN click_count + 1 ELSE click_count
    /\ ppc' = IF o \in {"clicked", "StaleElementReferenceException"}
              THEN "load_more" ELSE "loaded"
    /\ UNCHANGED <<extractVars, flatVars, discVars, page, parsed_data>>

\* The loop condition fails: load_all_messages returns.
LoadMoreGivesUp ==
    /\ ppc = "load_more"
    /\ click_count >= timeout
    /\ ppc' = "loaded"
    /\ UNCHANGED <<extractVars, flatVars, discVars, page, parsed_data,
                   click_count, iterations>>

\* parse_page_sections is entered: parsed_data = {}; the page is what the
\* browser shows now.
BeginSections ==
    /\ ppc = "loaded"
    /\ page' \in Pages
    /\ parsed_data' = <<>>
    /\ click_count' = 0
    /\ iterations' = 0
    /\ ppc' = "header"
    /\ UNCHANGED <<extractVars, flatVars, discVars>>

\* The record of the except clauses of parse_contents for an exception that
\* left parse_page_sections; the exceptions of the model are
\* WebDriverExceptions.
ErrorRecord(exception, url) ==
    <<Pair("error", Str("webdriver_error: " \o exception)),
      Pair("url", Str(url))>>

\* parsed_data["ZAGOLOVOK"] = parse_header(driver); an exception parse_header
\* lets through leaves parse_page_sections and is taken by parse_contents.
ParseHeader ==
    /\ ppc = "header"
    /\ LET r == parse_header(page)
       IN IF r.raised = "none"
          THEN /\ parsed_data' = Put(parsed_data, "ZAGOLOVOK", r.value)
               /\ ppc' = "publisher"
          ELSE /\ parsed_data' = ErrorRecord(r.raised, UrlOf(1))
               /\ ppc' = "returned"
    /\ UNCHANGED <<extractVars, flatVars, discVars, page, click_count, iterations>>

\* A section that gave something is stored under its key.
StoreSection(key, section_data) ==
    IF Truthy(section_data) THEN Put(parsed_data, key, section_data)
    ELSE parsed_data

ParsePublisher ==
    /\ ppc = "publisher"
    /\ parsed_data' = StoreSection("Publikator", parse_publisher_section(page))
    /\ ppc' = "message"
    /\ UNCHANGED <<extractVars, flatVars, discVars, page, click_count, iterations>>

ParseMessage ==
    /\ ppc = "message"
    /\ parsed_data' = StoreSection("Soobshchenie", parse_message_section(page))
    /\ ppc' = "related"
    /\ UNCHANGED <<extractVars, flatVars, discVars, page, click_count, iterations>>

ParseRelated ==
    /\ ppc = "related"
    /\ parsed_data' = StoreSection("Svyazannye soobshcheniya",
                                   parse_related_messages(page))
    /\ ppc' = "sections_done"
    /\ UNCHANGED <<extractVars, flatVars, discVars, page, click_count, iterations>>

\* parsed_data = {"url": url}; parsed_data.update(parse_page_sections(driver))
ReturnRecord ==
    /\ ppc = "sections_done"
    /\ parsed_data' = Update(<<Pair("url", Str(UrlOf(1)))>>, parsed_data)
    /\ ppc' = "returned"
    /\ UNCHANGED <<extractVars, flatVars, discVars, page, click_count, iterations>>

\* The record is stored under its url in the bucket file, and the export
\* reads the file.
StoreAndRead ==
    /\ ppc = "returned"
    /\ fstage = "off"
    /\ json_data_list' = << <<Pair(UrlOf(1), Dict(parsed_data))>> >>
    /\ fstage' = "read"
    /\ UNCHANGED <<extractVars, pageVars, discVars, processed_records, df>>

NextPage ==
    \/ \E o \in ButtonOutcomes : LoadMorePass(o)
    \/ LoadMoreGivesUp
    \/ BeginSections
    \/ ParseHeader
    \/ ParsePublisher
    \/ ParseMessage
    \/ ParseRelated
    \/ ReturnRecord
    \/ StoreAndRead
    \/ ProcessRecords
    \/ CreateDataframe

SpecPage == InitPage /\ [][NextPage]_vars

\* ------------------------------------------------- the discovery stage
\* process_links_file of 2prepare_message_links.py.  A month entry is the
\* month, whether it has the key links_inside, and the links under it.
Entry(month, has, links_inside) ==
    [month |-> month, has |-> has, links_inside |-> links_inside]

\* 1month_links.json: the months in order, none with links_inside.
InputMonths == [m \in 1..MaxMonths |-> Entry(m, FALSE, <<>>)]

\* 2month_links.json: absent, whole, or opened for writing and not written
\* ("partial": json.load rejects it).
LinksFile(state, entries_) == [state |-> state, data |-> entries_]

\* What get_all_links may give for a month: no link, or its links.
LinksFound(month) == {<<>>, <<month>>}

\* The months of a list of entries that have links_inside.
MonthsWithLinks(entries_) ==
    {entries_[j].month : j \in {k \in 1..Len(entries_) : entries_[k].has}}

\* The record kept of a run: its flag, the months that had links_inside in
\* the file it read, the months it fetched and those it wrote, how it ended.
RunRecord(force_recreate, had, ended) ==
    [force |-> force_recreate, had |-> had, fetched |-> <<>>,
     written |-> <<>>, ended |-> ended]

ThisRun == dtrace[Len(dtrace)]

NoteRun(field, value) ==
    [dtrace EXCEPT ![Len(dtrace)] = [@ EXCEPT ![field] = value]]

\* The stage has never run.
InitDiscovery ==
    /\ ExtractionIdle
    /\ ExportOff
    /\ PageOff
    /\ links_file = LinksFile("absent", <<>>)
    /\ entries = <<>>
    /\ entry_i = 0
    /\ dpc = "idle"
    /\ dtrace = <<>>

\* The file initialize_output_file leaves: removed under force_recreate,
\* copied from the input when it does not exist.
initialize_output_file(f, force_recreate) ==
    IF f.state = "absent" \/ force_recreate
    THEN LinksFile("ok", InputMonths)
    ELSE f

\* process_links_file up to the loop: the output file is initialised and
\* read; json.load is outside the try, so a file it rejects ends the run.
StartDiscovery(force_recreate) ==
    /\ dpc = "idle"
    /\ Len(dtrace) < MaxRuns
    /\ LET f == initialize_output_file(links_file, force_recreate)
       IN /\ links_file' = f
          /\ IF f.state = "ok"
             THEN /\ entries' = f.data
                  /\ entry_i' = 1
                  /\ dpc' = "loop"
                  /\ dtrace' = Append(dtrace,
                                      RunRecord(force_recreate,
                                                MonthsWithLinks(f.data),
                                                "running"))
             ELSE /\ entries' = <<>>
                  /\ entry_i' = 0
                  /\ dpc' = "idle"
                  /\ dtrace' = Append(dtrace,
                                      RunRecord(force_recreate, {}, "crashed"))
    /\ UNCHANGED <<extractVars, flatVars, pageVars>>

\* if "links_inside" in entry and not force_recreate: continue
SkipMonth ==
    /\ dpc = "loop"
    /\ entry_i <= Len(entries)
    /\ entries[entry_i].has /\ ~ThisRun.force
    /\ entry_i' = entry_i + 1
    /\ UNCHANGED <<extractVars, flatVars, pageVars, links_file, entries, dpc,
                   dtrace>>

\* load_all_pages and get_all_links for the month: entry["links_inside"] is
\* set to the links found.
FetchMonth ==
    /\ dpc = "loop"
    /\ entry_i <= Len(entries)
    /\ ~(entries[entry_i].has /\ ~ThisRun.force)
    /\ \E found \in LinksFound(entries[entry_i].month) :
          entries' = [entries EXCEPT ![entry_i] = Entry(@.month, TRUE, found)]
    /\ dtrace' = NoteRun("fetched",
                         Append(ThisRun.fetched, entries[entry_i].month))
    /\ dpc' = "open"
    /\ UNCHANGED <<extractVars, flatVars, pageVars, links_file, entry_i>>

\* An exception in the loop body is taken by "except Exception": the loop is
\* left, the finally clause closes the browser.
MonthFails ==
    /\ dpc \in {"loop", "open", "dump"}
    /\ dpc = "loop" => entry_i <= Len(entries)
                          /\ ~(entries[entry_i].has /\ ~ThisRun.force)
    /\ dpc' = "idle"
    /\ dtrace' = NoteRun("ended", "exception")
    /\ UNCHANGED <<extractVars, flatVars, pageVars, links_file, entries, entry_i>>

\* with open(output_file, 'w'): the file is truncated.
WriteOpen ==
    /\ dpc = "open"
    /\ links_file' = LinksFile("partial", <<>>)
    /\ dpc' = "dump"
    /\ UNCHANGED <<extractVars, flatVars, pageVars, entries, entry_i, dtrace>>

\* json.dump(data, f) and the close of the file; the loop goes on.
WriteDump ==
    /\ dpc = "dump"
    /\ links_file' = LinksFile("ok", entries)
    /\ dtrace' = NoteRun("written",
                         Append(ThisRun.written, entries[entry_i].month))
    /\ entry_i' = entry_i + 1
    /\ dpc' = "loop"
    /\ UNCHANGED <<extractVars, flatVars, pageVars, entries>>

\* The loop is over; finally closes the browser and the function returns.
EndOfMonths ==
    /\ dpc = "loop"
    /\ entry_i > Len(entries)
    /\ dpc' = "idle"
    /\ dtrace' = NoteRun("ended", "completed")
    /\ UNCHANGED <<extractVars, flatVars, pageVars, links_file, entries, entry_i>>

\* The run is interrupted (Ctrl-C, kill): nothing more is written.
InterruptDiscovery ==
    /\ dpc \in {"loop", "open", "dump"}
    /\ dpc' = "idle"
    /\ dtrace' = NoteRun("ended", "interrupted")
    /\ UNCHANGED <<extractVars, flatVars, pageVars, links_file, entries, entry_i>>

NextDiscovery ==
    \/ \E force_recreate \in BOOLEAN : StartDiscovery(force_recreate)
    \/ SkipMonth
    \/ FetchMonth
    \/ MonthFails
    \/ WriteOpen
    \/ WriteDump
    \/ EndOfMonths
    \/ InterruptDiscovery

SpecDiscovery == InitDiscovery /\ [][NextDiscovery]_vars

\* ------------------------------------------------- the lessor block alone
\* The lines a lessor block is made of: a name, the two labels, a digit
\* string, a text that is not all digits, an empty line and a padded line.
LessorLines ==
    {"OOO L", "INN", "OGRN", "7701", "abc123", "", " 7701 "}

\* The values of the field Lizingodateli: the texts of 1..MaxParts lines, and
\* values that are not texts.
LessorInputs ==
    UNION { {Text(ls) : ls \in [1..n -> LessorLines]} : n \in 1..MaxParts }
    \cup {Num("7701"), Dict(<<Pair("INN", Str("7701"))>>)}

\* One bucket file with one record whose message holds the lessor block.
LessorBucket(lessor) ==
    <<Pair(UrlOf(1),
           Dict(<<Pair("url", Str(UrlOf(1))), Header("X", ""),
                  Pair("Soobshchenie",
                       Dict(<<Pair("Lizingodateli", lessor)>>))>>))>>

\* main of 4make_excel_files.py has read one bucket file: it is empty, or it
\* holds one record with a lessor block.
InitLessor ==
    /\ ExtractionIdle
    /\ PageOff
    /\ DiscoveryOff
    /\ json_data_list \in {<< <<>> >>}
                           \cup {<<LessorBucket(v)>> : v \in LessorInputs}
    /\ processed_records = <<>>
    /\ df = [columns |-> <<>>, rows |-> <<>>]
    /\ fstage = "read"

SpecLessor == InitLessor /\ [][NextFlatten]_vars


\* ------------------------------------------------------------ properties
InBucketLoop == pc \notin {"idle", "setup", "next_year"}

\* The fetches of this bucket in this run, in processing order.
Fetched == FetchedOf(trace)

\* A bucket with the records of a sequence of fetches merged into it.
RECURSIVE Extended(_, _)
Extended(bucket, fetches) ==
    IF fetches = <<>> THEN bucket
    ELSE Extended([bucket EXCEPT ![Head(fetches).url] = Head(fetches).rec],
                  Tail(fetches))

\* The records of the in-memory bucket that a reader of the file does not find.
Unsaved ==
    {u \in Urls : InBucket(u, year_results)
                  /\ FileData(file[year])[u] # year_results[u]}

\* How many of the first j entries of the trace are fetches.
FetchesUpTo(j) == Cardinality({m \in 1..j : trace[m].ev = "proc"})

\* Every fetch and every skip from entry j on carries the number of fetches
\* made up to it, n being the number of fetches before entry j.
RECURSIVE CountsAgree(_, _)
CountsAgree(j, n) ==
    IF j > Len(trace) THEN TRUE
    ELSE LET m == IF trace[j].ev = "proc" THEN n + 1 ELSE n
         IN /\ trace[j].ev \in {"proc", "skip"} => trace[j].k = m
            /\ CountsAgree(j + 1, m)

\* C1: in runs without --force-recreate, a url that was a key of a bucket file
\* with a non-error record when such a run started is never handed to
\* parse_contents, and every complete bucket file written afterwards holds that
\* same record under it.
C1_NonErrorRecordNeverReplaced ==
    ~force =>
        \A y \in AllYears : \A u \in Urls :
            (InBucket(u, pinned[y]) /\ ~IsError(pinned[y][u])) =>
                /\ ~(pc = "parse" /\ year = y /\ links[i] = u)
                /\ file[y].state = "ok" => file[y].data[u] = pinned[y][u]

\* C2: when the first run (no force, bucket of M distinct urls, no file) was
\* stopped right after N urls were fetched and merged, a second run without
\* force has fetched, by the end of that bucket, exactly the urls N+1..M.
C2_RerunFetchesExactlyTheRest ==
    (run = 2 /\ ~force /\ cut.year # 0 /\ year = cut.year /\ pc = "final_save")
        => [j \in 1..Len(Fetched) |-> Fetched[j].url]
               = SubSeq(links, cut.n + 1, Len(links))

\* C3: however a run ends, every record it merged into year_results is in the
\* bucket file once the run has ended.
C3_EveryExitSaves ==
    [][(pc # "idle" /\ pc' = "idle" /\ year # 0) =>
          \A u \in Urls :
              (InBucket(u, year_results) /\ year_results[u] # loaded[u])
                  => FileData(file'[year])[u] = year_results[u]]_vars

\* C4: after a run without force that completed, a second run without force
\* over the same input never enters parse_contents, every save it makes writes
\* what the file held, and when it completes the bucket files are those the
\* first run left.
C4_SecondRunChangesNothing ==
    (prev.completed /\ ~prev.force /\ ~force) =>
        /\ pc # "parse"
        /\ pc \in {"backup", "final_backup"} => file[year] = startFile[year]
        /\ (pc = "idle" /\ outcome = "ok") => file = startFile

C4_Witness ==
    /\ prev.completed /\ ~prev.force /\ ~force
    /\ pc = "idle" /\ outcome = "ok"
    /\ \E y \in AllYears : Cardinality(Keys(FileData(file[y]))) = MaxLinks

\* C5: with every save_results call taken as one step, no step of a run without
\* force removes a key from a bucket file.
C5_KeysNeverShrink ==
    [][~force' =>
          \A y \in AllYears :
              Keys(FileData(file[y])) \subseteq Keys(FileData(file'[y]))]_vars

C5_Witness ==
    /\ ~force /\ run = 2 /\ pc = "backup"
    /\ Keys(loaded) # {}
    /\ Keys(loaded) # Keys(FileData(file[year]))

\* C6: a run that was stopped inside save_results leaves every bucket file a
\* complete document, the old one or the new one.
C6_SaveIsAtomic ==
    pc = "idle" => \A y \in AllYears : file[y].state # "partial"

\* C7: within a bucket the k-th fetch is followed at once by a save and then a
\* backup exactly when k = 1 or k is a multiple of 10; k counts fetches only, a
\* skipped url leaves k as it is and is followed by no save.
C7_CheckpointCadence ==
    InBucketLoop =>
        /\ CountsAgree(1, 0)
        /\ \A j \in 1..Len(trace) :
            LET e == trace[j]
                due == e.k = 1 \/ e.k % 10 = 0
                last == j = Len(trace)
            IN /\ e.ev = "proc" /\ due =>
                    IF last THEN pc \in {"cadence", "save", "dump"}
                    ELSE trace[j + 1].ev = "save" /\ trace[j + 1].k = e.k
               /\ e.ev = "proc" /\ ~due =>
                    IF last THEN pc \notin {"save", "dump", "backup"}
                    ELSE trace[j + 1].ev \in {"proc", "skip", "final_save"}
               /\ e.ev = "skip" =>
                    IF last THEN pc \notin {"save", "dump", "backup"}
                    ELSE trace[j + 1].ev \in {"proc", "skip", "final_save"}
               /\ e.ev = "save" =>
                    /\ trace[j - 1].ev = "proc" /\ trace[j - 1].k = e.k /\ due
                    /\ IF last THEN pc = "backup"
                       ELSE trace[j + 1].ev = "backup" /\ trace[j + 1].k = e.k
               /\ e.ev = "backup" =>
                    trace[j - 1].ev = "save"

C7_Witness ==
    /\ \E j \in 1..Len(trace) : trace[j].ev = "skip"
    /\ \E j \in 1..Len(trace) : trace[j].ev = "backup" /\ trace[j].k = 10
    /\ \E j \in 1..(Len(trace) - 1) :
          trace[j].ev = "proc" /\ trace[j].k = 5 /\ trace[j + 1].ev = "proc"

\* C8: whenever a fetch begins at most 9 records of the in-memory bucket are
\* missing from the bucket file, and at no point of a run are more than 10
\* missing, so that a crash loses at most 10 records.
C8_CrashLosesAtMostOneBatch ==
    InBucketLoop =>
        /\ pc = "parse" => Cardinality(Unsaved) <= 9
        /\ Cardinality(Unsaved) <= 10

\* C9: in a run without force the bucket file is, whenever it is a complete
\* document, the bucket loaded at the start extended with the records of a
\* prefix of the fetches made so far, and right after a save with all of them.
C9_CheckpointIsLoadedPlusPrefix ==
    (~force /\ InBucketLoop /\ file[year].state # "partial") =>
        LET fetched == Fetched
        IN /\ \E n \in 0..Len(fetched) :
                 FileData(file[year]) = Extended(loaded, SubSeq(fetched, 1, n))
           /\ pc \in {"backup", "final_backup"} =>
                 FileData(file[year]) = Extended(loaded, fetched)

C9_Witness ==
    /\ ~force /\ pc = "backup" /\ processed_count = 10
    /\ Keys(loaded) # {}
    /\ \E u \in Urls : IsError(year_results[u]) /\ ~InBucket(u, loaded)

\* C10: an error record returned by parse_contents is stored under its url, is
\* written by every save like any other record, and in no later run without
\* force is the url handed to parse_contents again.
C10_FailedUrlNeverRetried ==
    /\ InBucketLoop =>
          \A j \in 1..Len(Fetched) :
              year_results[Fetched[j].url] = Fetched[j].rec
    /\ pc \in {"backup", "final_backup"} =>
          \A u \in Urls :
              IsError(year_results[u]) => FileData(file[year])[u] = year_results[u]
    /\ (~force /\ pc = "parse") => links[i] \notin failed[year]

\* ------------------------------------------- force, errors and the order
\* The urls the link loop has taken so far in this bucket, fetched or skipped.
RECURSIVE VisitedOf(_)
VisitedOf(t) ==
    IF t = <<>> THEN <<>>
    ELSE IF Head(t).ev \in {"proc", "skip"}
         THEN <<Head(t).url>> \o VisitedOf(Tail(t))
         ELSE VisitedOf(Tail(t))

Visited == VisitedOf(trace)

\* The links of the months of year y among the first n entries of the input,
\* months in input order and the links of a month in list order.
RECURSIVE LinksOfYear(_, _, _)
LinksOfYear(d, y, n) ==
    IF n = 0 THEN <<>>
    ELSE LinksOfYear(d, y, n - 1)
         \o (IF d[n].has_links /\ extract_year_from_month(d[n].month) = y
             THEN d[n].links_inside ELSE <<>>)

\* For each input file and year, the links of that year in input order.
ExpectedLinks ==
    [d \in InputFiles |-> [y \in AllYears |-> LinksOfYear(d, y, Len(d))]]

\* The years that have links in the input.
YearsOfInput == {y \in AllYears : ExpectedLinks[data][y] # <<>>}

\* C11: in a run with --force-recreate no element of a bucket's url sequence is
\* skipped: at the final save of the bucket the urls handed to parse_contents
\* are the whole input sequence, repeated urls included.
C11_ForceFetchesEveryElement ==
    (force /\ InBucketLoop) =>
        /\ \A j \in 1..Len(trace) : trace[j].ev # "skip"
        /\ pc = "final_save" =>
              [j \in 1..Len(Fetched) |-> Fetched[j].url] = links

\* C12: a fetch that fails does not end the run: parse_contents returns, its
\* record is merged and the loop goes on; at the final save of a bucket every
\* url of the bucket has been visited in turn, and a run that completes has
\* saved every bucket of the input with all its urls.
C12_FetchFailureNeverAborts ==
    [][/\ (pc = "parse" /\ pc' # "parse" /\ outcome' # "interrupted") =>
             /\ pc' = "cadence"
             /\ i' = i
             /\ InBucket(links[i], year_results')
       /\ pc = "final_save" => Visited = links
       /\ (pc = "idle" /\ outcome = "ok") =>
             \A y \in YearsOfInput :
                 /\ file[y].state = "ok"
                 /\ Range(ExpectedLinks[data][y]) \subseteq Keys(file[y].data)]_vars

C12_Witness ==
    /\ pc = "final_save"
    /\ Len(links) >= MaxLinks - 1
    /\ \E j \in 1..(Len(Fetched) - 1) :
          IsError(Fetched[j].rec) /\ ~IsError(Fetched[j + 1].rec)
    /\ Cardinality({j \in 1..Len(Fetched) : IsError(Fetched[j].rec)}) >= 2

\* C13: a save_results call that raises does not end the run: the run goes on
\* with the in-memory bucket.
C13_SaveFailureNeverAborts ==
    [][(pc \in {"save", "final_save"} /\ pc' # pc /\ outcome' # "interrupted")
          => pc' # "idle"]_vars

\* C14: a create_backup call whose copy fails returns normally: the bucket
\* file and the in-memory bucket are what they were, and the loop goes on with
\* the next url (after the final backup, with the next bucket).
C14_BackupFailureIsNotFatal ==
    [][(/\ pc \in {"backup", "final_backup"} /\ pc' # pc
        /\ outcome' # "interrupted"
        /\ backup'[year] # file[year]) =>
          /\ file' = file
          /\ year_results' = year_results
          /\ pc = "backup" => (pc' = "link_loop" /\ i' = i + 1)
          /\ pc = "final_backup" => pc' = "next_year"]_vars

C14_Witness ==
    /\ pc = "link_loop"
    /\ trace # <<>>
    /\ trace[Len(trace)].ev = "backup"
    /\ file[year].state = "ok"
    /\ backup[year] # file[year]
    /\ i <= Len(links)

\* C15: load_existing_results never raises: in a run without force the bucket
\* starts as the document of the file when the file is one, and empty when
\* the file is absent or is not a JSON document; after a corrupt file was
\* loaded as empty every url of the bucket is fetched and the first save
\* replaces the file.
C15_LoadNeverRaises ==
    [][/\ (pc = "next_year" /\ years # <<>> /\ ~force /\ pc' # pc
           /\ outcome' # "interrupted") =>
             /\ pc' = "link_loop"
             /\ year_results' = FileData(file[Head(years)])
       /\ (~force /\ pc \in {"backup", "final_backup"}) =>
             file[year].state = "ok"
       /\ (~force /\ pc = "final_save" /\ startFile[year].state # "ok"
           /\ run = 1) =>
             [j \in 1..Len(Fetched) |-> Fetched[j].url] = Visited]_vars

\* The order of the walk of process_links, as a predicate of one state: the
\* links of the bucket are those of the input in input order and the urls
\* visited so far are a prefix of them; the years still to visit ascend and
\* lie after the current one; every earlier bucket is saved with all its links.
BucketOrder ==
    /\ InBucketLoop =>
          LET visited == Visited
          IN /\ links = ExpectedLinks[data][year]
             /\ \E n \in {i - 1, i} :
                   n <= Len(links) /\ visited = SubSeq(links, 1, n)
             /\ pc \in {"parse", "link_loop"} =>
                   visited = SubSeq(links, 1, i - 1)
             /\ pc \in {"final_save", "final_dump", "final_backup"} =>
                   visited = links
    /\ Running =>
          /\ \A j \in 1..Len(years) : years[j] > year
          /\ \A j \in 1..(Len(years) - 1) : years[j] < years[j + 1]
          /\ \A y \in YearsOfInput :
                (y < year \/ (y = year /\ pc = "next_year")) =>
                    /\ y \notin Range(years)
                    /\ file[y].state = "ok"
                    /\ Range(ExpectedLinks[data][y]) \subseteq Keys(file[y].data)

\* C16: buckets are taken in ascending order of year, a bucket is loaded only
\* after the final save and backup of the one before it, and inside a bucket
\* the urls are taken one at a time in the order of the input: months in input
\* order, the links of a month in list order.
C16_AscendingBucketsInputOrder == []BucketOrder

C16_Witness ==
    /\ pc = "final_save"
    /\ year = 2021
    /\ file[2020].state = "ok"
    /\ Len(data) > 2
    /\ Len(Visited) = 2

\* ------------------------------------------------- the export's properties
\* The items of the bucket files in the order process_records takes them.
RECURSIVE ItemsOf(_)
ItemsOf(buckets) ==
    IF buckets = <<>> THEN <<>> ELSE Head(buckets) \o ItemsOf(Tail(buckets))

AllItems == ItemsOf(json_data_list)

Reverse(seq) == [j \in 1..Len(seq) |-> seq[Len(seq) + 1 - j]]

ColumnSet == {df.columns[j] : j \in 1..Len(df.columns)}

\* The position of a name in the list of fixed columns, 0 for another name.
SpecialIndex(col) ==
    IF IsSpecial(col)
    THEN CHOOSE j \in 1..Len(special_columns) : special_columns[j] = col
    ELSE 0

\* An empty cell: the empty string, None or the frame's missing value.
IsEmptyCell(v) == v \in {Str(""), None, NaN}

\* What follows the fixed columns: every other field name once, ascending.
OthersAscendingFrom(first) ==
    /\ \A j \in first..Len(df.columns) : ~IsSpecial(df.columns[j])
    /\ \A j \in first..(Len(df.columns) - 1) :
          Rank(df.columns[j]) < Rank(df.columns[j + 1])
    /\ \A r \in 1..Len(processed_records) :
          \A k \in KeysOf(processed_records[r]) :
              IsSpecial(k) \/ \E j \in first..Len(df.columns) : df.columns[j] = k
    /\ \A j \in first..Len(df.columns) :
          \E r \in 1..Len(processed_records) :
              df.columns[j] \in KeysOf(processed_records[r])

\* C17 as stated: the columns are the nine fixed columns, then every other
\* field name in ascending order, each once, whatever the order of the rows.
C17_NineFixedColumnsLead ==
    fstage = "framed" =>
        /\ Len(df.columns) >= Len(special_columns)
        /\ SubSeq(df.columns, 1, Len(special_columns)) = special_columns
        /\ OthersAscendingFrom(Len(special_columns) + 1)
        /\ create_dataframe(Reverse(processed_records)).columns = df.columns

\* C17 amended: the columns are those of the nine fixed columns that occur in
\* some row, in the order of the list, then every other field name that occurs
\* in some row in ascending order, each once, whatever the order of the rows.
C17_ExistingFixedColumnsLead ==
    fstage = "framed" =>
        LET nfixed == Cardinality({c \in ColumnSet : IsSpecial(c)})
        IN /\ \A j \in 1..nfixed : IsSpecial(df.columns[j])
           /\ \A j \in 1..(nfixed - 1) :
                 SpecialIndex(df.columns[j]) < SpecialIndex(df.columns[j + 1])
           /\ \A c \in Range(special_columns) :
                 c \in ColumnSet <=>
                     \E r \in 1..Len(processed_records) :
                         c \in KeysOf(processed_records[r])
           /\ OthersAscendingFrom(nfixed + 1)
           /\ create_dataframe(Reverse(processed_records)).columns = df.columns

C17_Witness ==
    /\ fstage = "framed"
    /\ Len(processed_records) = 2
    /\ "Identifikator" \notin ColumnSet
    /\ {"error", "INN (Publikator)", "Dogovor (Soobshchenie)"} \subseteq ColumnSet
    /\ FirstAppearance(<<>>, processed_records)
           # FirstAppearance(<<>>, Reverse(processed_records))

\* C18: every row of the frame has exactly the columns of the column order: no
\* record has a field that is not a column, and a record without a field has
\* that column with an empty cell.
C18_RowsHaveExactlyTheColumns ==
    fstage = "framed" =>
        /\ Len(df.rows) = Len(processed_records)
        /\ \A r \in 1..Len(df.rows) :
              /\ DOMAIN df.rows[r] = ColumnSet
              /\ KeysOf(processed_records[r]) \subseteq ColumnSet
              /\ \A c \in ColumnSet :
                    IF Has(processed_records[r], c)
                    THEN df.rows[r][c] = Get(processed_records[r], c)
                    ELSE df.rows[r][c] = NaN

C18_Witness ==
    /\ fstage = "framed"
    /\ Len(df.rows) = 2
    /\ KeysOf(processed_records[1]) \ KeysOf(processed_records[2]) # {}
    /\ KeysOf(processed_records[2]) \ KeysOf(processed_records[1]) # {}
    /\ \E c \in ColumnSet : df.rows[1][c] = NaN /\ ~IsSpecial(c)

\* The rows of the records {error: "timeout", url: B} stored under B.
TimeoutRows ==
    {r \in 1..Len(AllItems) :
        AllItems[r].v.d = <<Pair("error", Str("timeout")),
                            Pair("url", Str(AllItems[r].k))>>}

\* C19 as stated: the row of a record {error: "timeout", url: B} stored under
\* B has url = B and every other column of the row is empty.
C19_ErrorRowHasOnlyUrl ==
    fstage = "framed" =>
        \A r \in TimeoutRows :
            /\ "url" \in ColumnSet
            /\ df.rows[r]["url"] = Str(AllItems[r].k)
            /\ \A c \in ColumnSet \ {"url"} : IsEmptyCell(df.rows[r][c])
            /\ \A c \in KeysOf(processed_records[r]) \ {"url"} :
                  IsEmptyCell(Get(processed_records[r], c))

\* C19 amended: the row of a record {error: "timeout", url: B} stored under B
\* has url = B and error = "timeout", and every other column of the row is
\* empty.
C19_ErrorRowHasUrlAndError ==
    fstage = "framed" =>
        \A r \in TimeoutRows :
            /\ {"url", "error"} \subseteq ColumnSet
            /\ df.rows[r]["url"] = Str(AllItems[r].k)
            /\ df.rows[r]["error"] = Str("timeout")
            /\ \A c \in ColumnSet \ {"url", "error"} :
                  IsEmptyCell(df.rows[r][c])
            /\ KeysOf(processed_records[r]) =
                  {"url", "error", "Osnovnoj zagolovok", "Podzagolovok",
                   "INN Lizingodatelya", "OGRN Lizingodatelya"}
            /\ \A c \in KeysOf(processed_records[r]) :
                  Get(processed_records[r], c) = df.rows[r][c]

C19_Witness ==
    /\ fstage = "framed"
    /\ Len(df.rows) = 2
    /\ 2 \in TimeoutRows
    /\ 1 \notin TimeoutRows
    /\ Len(df.columns) > 8

\* The subject-items table of a stored record, <<>> when it has none.
ItemsTableOf(record) ==
    LET msg == GetOr(record, "Soobshchenie", Dict(<<>>))
    IN GetOr(msg.d, "Predmety finansovoj arendy (lizinga)", Dict(<<>>)).d

\* The text of the claim for one column: the entries "No<i>. <value of row i>"
\* for i = 1..n, joined by newlines.
NumberedLines(items, field) ==
    JoinWith([j \in 1..Len(items) |->
                 "No" \o ToString(j) \o ". " \o Get(items[j].v.d, field).s],
             "\n")

\* C20: for a record with the subject-items table r1..rn, each of the columns
\* Identifikator, Klassifikator and Opisanie is the newline-joined sequence of
\* the entries "No<i>. <value of ri>", i = 1..n in stored order, whatever the
\* labels the rows are stored under; flattening the record again gives the
\* same text.
C20_ItemsNumberedFromOne ==
    fstage \in {"processed", "framed"} =>
        \A r \in 1..Len(AllItems) :
            LET items == ItemsTableOf(AllItems[r].v.d)
            IN items # <<>> =>
                  \A field \in {"Identifikator", "Klassifikator", "Opisanie"} :
                      (\A j \in 1..Len(items) : Has(items[j].v.d, field)) =>
                          /\ Has(processed_records[r], field)
                          /\ Get(processed_records[r], field).s
                                 = NumberedLines(items, field)
                          /\ Get(process_single_record(AllItems[r].k,
                                                       AllItems[r].v.d), field)
                                 = Get(processed_records[r], field)

\* ----------------------------------------------------- the lessor's ids
\* The value of the field Lizingodateli of the record that was read.
LessorField ==
    Get(Get(json_data_list[1][1].v.d, "Soobshchenie").d, "Lizingodateli")

\* The positions of a label among the non-empty lines of a text.
LabelAt(lines, label) ==
    {j \in 1..Len(StrippedParts(lines)) : StrippedParts(lines)[j] = label}

\* The id a label gives: the line after the label when it is all digits.
IdAfter(lines, label) ==
    LET parts == StrippedParts(lines)
        at == LabelAt(lines, label)
        j == CHOOSE j \in at : TRUE
    IN IF at = {} THEN None
       ELSE IF j = Len(parts) THEN None
       ELSE IF parts[j + 1] \in DigitStrings THEN Str(parts[j + 1])
       ELSE None

\* C21: for a text in which each of the labels INN and OGRN is a line at most
\* once, parse_lessor_info gives for each label the non-empty line after it
\* when that line is all digits, and None when the label is absent, is the
\* last line or is followed by a line that is not all digits, each label
\* independently of the other; a value that is not a text gives (None, None);
\* the row of the record carries the two ids in its lessor columns.
C21_LessorIdsByLabel ==
    json_data_list[1] # <<>> =>
        LET v == LessorField
            ids == parse_lessor_info(v)
            expected == IF v.t # "str" THEN <<None, None>>
                        ELSE <<IdAfter(v.lines, "INN"), IdAfter(v.lines, "OGRN")>>
            stated == \/ v.t # "str"
                      \/ /\ Cardinality(LabelAt(v.lines, "INN")) <= 1
                         /\ Cardinality(LabelAt(v.lines, "OGRN")) <= 1
        IN stated =>
              /\ ids = expected
              /\ fstage # "read" =>
                    /\ Len(processed_records) = 1
                    /\ Get(processed_records[1], "INN Lizingodatelya") = expected[1]
                    /\ Get(processed_records[1], "OGRN Lizingodatelya") = expected[2]

C21_Witness ==
    /\ fstage = "processed"
    /\ json_data_list[1] # <<>>
    /\ LessorField.t = "str"
    /\ LabelAt(LessorField.lines, "INN") = {1}
    /\ Cardinality(LabelAt(LessorField.lines, "OGRN")) = 1
    /\ Get(processed_records[1], "INN Lizingodatelya") = Str("7701")
    /\ Get(processed_records[1], "OGRN Lizingodatelya") = None
    /\ LessorField.lines[2] = " 7701 "

\* -------------------------------------------- the page parser's properties
\* The header a page gives when a lookup that fails leaves its field empty.
IsolatedHeader(dom) ==
    Dict(<<Pair("Osnovnoj zagolovok",
                Str(IF dom.main_header = "found" THEN "X" ELSE "")),
           Pair("Podzagolovok",
                Str(IF dom.subheader = "found" THEN "Y" ELSE ""))>>)

\* The sections of a record in the order parse_page_sections stores them,
\* each with what its own sub-extractor gives for the page.
IsolatedSections(dom) ==
    << Pair("ZAGOLOVOK", IsolatedHeader(dom)),
       Pair("Publikator", parse_publisher_section(dom)),
       Pair("Soobshchenie", parse_message_section(dom)),
       Pair("Svyazannye soobshcheniya", parse_related_messages(dom)) >>

\* C22: whatever exception a DOM lookup of a sub-extractor raises, the record
\* parse_contents returns is not an error record; the field of the
\* sub-extractor that failed is empty or left out, and every other section
\* is as its sub-extractor gives it.
C22_SubExtractorsFaultIsolated ==
    ppc = "returned" =>
        /\ ~Has(parsed_data, "error")
        /\ Get(parsed_data, "url") = Str(UrlOf(1))
        /\ \A j \in 1..4 :
              LET section == IsolatedSections(page)[j]
              IN IF j = 1 \/ Truthy(section.v)
                 THEN /\ Has(parsed_data, section.k)
                      /\ Get(parsed_data, section.k) = section.v
                 ELSE ~Has(parsed_data, section.k)

\* The integer a digit text stands for.
IntegerOf(text) ==
    CASE text = "7701" -> Num("7701")
      [] text = "1027" -> Num("1027")
      [] text = "0077" -> Num("77")

\* The publisher block was found with a name and two id texts, and
\* parse_publisher_section has been called on it.
PublisherParsed ==
    /\ ppc \in {"message", "related", "sections_done"}
       \/ (ppc = "returned" /\ ~Has(parsed_data, "error"))
    /\ page.publisher.lookup = "found"
    /\ page.publisher.name # ""
    /\ page.publisher.inn # ""
    /\ page.publisher.ogrn # ""

\* The id a record holds for the publisher, under the key given.
PublisherId(key) == Get(Get(parsed_data, "Publikator").d, key)

\* C23 as stated: a publisher id text of digits is stored as the integer, any
\* other non-empty text is stored as it is; the section is kept and no error
\* is raised.
C23_NonNumericIdKeptVerbatim ==
    PublisherParsed =>
        /\ Has(parsed_data, "Publikator")
        /\ \A id \in {<<"INN", page.publisher.inn>>,
                      <<"OGRN", page.publisher.ogrn>>} :
              PublisherId(id[1]) = IF id[2] \in {"7701", "1027", "0077"}
                                   THEN IntegerOf(id[2])
                                   ELSE Str(id[2])

\* C23: a publisher id text of digits is stored as the integer, any other
\* non-empty text is stored as None; the section is kept with its name and no
\* error is raised.
C23_NonNumericIdStoredAsNone ==
    PublisherParsed =>
        /\ Has(parsed_data, "Publikator")
        /\ PublisherId("name") = Str(page.publisher.name)
        /\ \A id \in {<<"INN", page.publisher.inn>>,
                      <<"OGRN", page.publisher.ogrn>>} :
              PublisherId(id[1]) = IF id[2] \in {"7701", "1027", "0077"}
                                   THEN IntegerOf(id[2])
                                   ELSE None

C23_Witness ==
    /\ ppc = "returned"
    /\ PublisherParsed
    /\ page.publisher.inn = "abc123"
    /\ PublisherId("INN") = None
    /\ PublisherId("OGRN") = Num("1027")

\* The first text that is not empty.
RECURSIVE FirstNonEmpty(_)
FirstNonEmpty(texts) ==
    IF texts = <<>> THEN ""
    ELSE IF Head(texts) # "" THEN Head(texts)
    ELSE FirstNonEmpty(Tail(texts))

\* The three strategies for the text of an element, in order.
Strategies(element) ==
    << strip(element.text),
       JoinWith(SpanTexts(element.spans), " "),
       strip(element.innerText) >>

\* C24: extract_text_content gives the first non-empty result of its three
\* strategies: the stripped text, the span texts joined by a space, the
\* stripped innerText; the message stores that text whenever one of the three
\* is not empty.
C24_FirstNonEmptyStrategyWins ==
    (ppc \in {"message", "related", "sections_done"}
        /\ page.message.lookup = "found" /\ ~page.message.value.stale) =>
        LET expected == FirstNonEmpty(Strategies(page.message.value))
        IN /\ extract_text_content(page.message.value) = expected
           /\ ppc # "message" =>
                 IF expected # ""
                 THEN /\ Has(parsed_data, "Soobshchenie")
                      /\ Get(parsed_data, "Soobshchenie").d
                            = <<Pair("Dogovor", Str(expected))>>
                 ELSE ~Has(parsed_data, "Soobshchenie")

\* The related notices parse_related_messages found on the page.
NoticesFound == parse_related_messages(page).d

\* C25: when parse_related_messages found a related notice, the row that
\* process_single_record makes of the record has the column of the related
\* messages, with one line per notice giving its number/date and its title.
C25_RelatedMessagesReachTheRow ==
    (fstage \in {"processed", "framed"} /\ ~Has(parsed_data, "error")
        /\ NoticesFound # <<>>) =>
        /\ Has(processed_records[1], "Svyazannye soobshcheniya")
        /\ Get(processed_records[1], "Svyazannye soobshcheniya")
              = Str(JoinWith([j \in 1..Len(NoticesFound) |->
                                 NoticesFound[j].k \o ": \""
                                    \o NoticesFound[j].v.s \o "\""],
                             "\n"))

\* C26: load_all_messages makes at most `timeout` passes of its loop, however
\* the wait and the click end.
C26_AtMostTimeoutPasses ==
    ppc \in {"load_more", "loaded"} => iterations <= timeout

\* ---------------------------------------------- the discovery's property
\* The months of the input that are not in the set, in input order.
MonthsLacking(had) ==
    SelectSeq([m \in 1..MaxMonths |-> m], LAMBDA m : m \notin had)

IsPrefixOf(a, b) == Len(a) <= Len(b) /\ a = SubSeq(b, 1, Len(a))

\* C27: in a run without force_recreate a month that has links_inside in the
\* output file is not fetched again, and the file is rewritten after every
\* month fetched; so once the run has stopped, wherever it stopped, the file
\* holds links_inside for exactly the months done so far, and the run fetched
\* the months that lacked links_inside, in input order: all of them when it
\* ran to its end.
C27_StoppedRunLeavesCompletedMonths ==
    (dtrace # <<>> /\ ~ThisRun.force) =>
        /\ Range(ThisRun.fetched) \cap ThisRun.had = {}
        /\ IsPrefixOf(ThisRun.fetched, MonthsLacking(ThisRun.had))
        /\ IsPrefixOf(ThisRun.written, ThisRun.fetched)
        /\ Len(ThisRun.fetched) <= Len(ThisRun.written) + 1
        /\ ThisRun.ended = "completed" =>
              ThisRun.fetched = MonthsLacking(ThisRun.had)
        /\ dpc = "idle" =>
              /\ ThisRun.ended # "crashed"
              /\ links_file.state = "ok"
              /\ MonthsWithLinks(links_file.data)
                    = ThisRun.had \cup Range(ThisRun.written)

====
